---- MODULE Spec2Model ----
(***************************************************************************)
(* A model of Spreadsheet.py (NGS-general/SolidDataExtractor): the         *)
(* Workbook and Worksheet classes, which buffer tab-delimited rows per     *)
(* sheet and write them into an xlwt workbook when saved.                  *)
(*                                                                         *)
(* Python strings are sequences of one-character strings, so that split,   *)
(* join, startswith and the formula expansion are computed character by    *)
(* character as the code computes them.                                    *)
(***************************************************************************)
EXTENDS Integers, Sequences, FiniteSets, TLC

VARIABLES
    sheets,     \* Workbook.sheets: the Worksheet objects, in registration order
    grid,       \* Workbook.workbook: the xlwt workbook, one page per sheet
    file,       \* the XLS document on disk (NoFile when there is none)
    opened,     \* history: the row count xlrd reported for each page at open
    before,     \* history: the sheets and the workbook before the last operation
    call,       \* history: the last operation called and its arguments
    result,     \* history: what the last operation returned or raised
    log,        \* history: the writes and the persist done by the last operation
    spreadsheet,    \* the Spreadsheet object: its xlwt workbook, current_row, headers
                    \* (and, as history, the number of rows added to it)
    style_keys,     \* the order in which style.keys() yields the keys in this process
    styles          \* history: the style strings addRow built, with their arguments

vars == <<sheets, grid, file, opened, before, call, result, log,
          spreadsheet, style_keys, styles>>

\* the variables of the Spreadsheet class
ssvars == <<spreadsheet, style_keys, styles>>

----------------------------------------------------------------------------
(* Bounds of the model. *)

\* at most this many sheets are registered
MaxSheets == 2
\* at most this many rows, written and buffered, over all the sheets
MaxRows == 3
\* insertColumn is called only while every buffered row has at most this many tokens
MaxCols == 2
\* the rows of a Spreadsheet are added only up to this row index
MaxSpreadsheetRow == 2

----------------------------------------------------------------------------
(* Python strings and lists. *)

TAB == "\t"
NL == "\n"

Upper == {"A", "B", "C", "D", "E", "F", "G", "H", "I", "J", "K", "L", "M",
          "N", "O", "P", "Q", "R", "S", "T", "U", "V", "W", "X", "Y", "Z"}
Lower == {"a", "b", "c", "d", "e", "f", "g", "h", "i", "j", "k", "l", "m",
          "n", "o", "p", "q", "r", "s", "t", "u", "v", "w", "x", "y", "z"}

\* str.isalpha() of one character
IsAlpha(c) == c \in Upper \cup Lower

\* the value of the expression c.isupper: the bound method itself, which is
\* not called, and a method object is true
IsUpperAttr(c) == TRUE

Digits == <<"0", "1", "2", "3", "4", "5", "6", "7", "8", "9">>

\* str(n) for an integer n >= 0
RECURSIVE Str(_)
Str(n) == IF n < 10 THEN <<Digits[n + 1]>>
          ELSE Str(n \div 10) \o <<Digits[(n % 10) + 1]>>

\* s.split(sep) for a one-character separator: always at least one piece
RECURSIVE SplitFrom(_, _, _, _)
SplitFrom(s, sep, i, piece) ==
    IF i > Len(s) THEN <<piece>>
    ELSE IF s[i] = sep THEN <<piece>> \o SplitFrom(s, sep, i + 1, <<>>)
    ELSE SplitFrom(s, sep, i + 1, Append(piece, s[i]))

Split(s, sep) == SplitFrom(s, sep, 1, <<>>)

\* sep.join(items)
RECURSIVE Join(_, _)
Join(items, sep) ==
    IF Len(items) = 0 THEN <<>>
    ELSE IF Len(items) = 1 THEN items[1]
    ELSE items[1] \o <<sep>> \o Join(Tail(items), sep)

\* s.startswith('=')
StartsWithEq(s) == Len(s) >= 1 /\ s[1] = "="

\* lst[k] with Python's negative indices; IndexError when out of range
PyInRange(lst, k) == IF k < 0 THEN k + Len(lst) >= 0 ELSE k < Len(lst)
PyIndex(lst, k) == IF k < 0 THEN lst[k + Len(lst) + 1] ELSE lst[k + 1]

\* lst.index(x): the 1-based place of the first x, 0 when there is none
RECURSIVE IndexFrom(_, _, _)
IndexFrom(lst, x, i) ==
    IF i > Len(lst) THEN 0
    ELSE IF lst[i] = x THEN i
    ELSE IndexFrom(lst, x, i + 1)

ListIndex(lst, x) == IndexFrom(lst, x, 1)

None == [kind |-> "return", value |-> "None"]
Return(v) == [kind |-> "return", value |-> v]
Raise(e) == [kind |-> "raise", value |-> e]

----------------------------------------------------------------------------
(* The xlwt workbook: a page is a name and its cells, a cell map takes      *)
(* <<row, col>> to the cell written there.                                  *)

\* os.path.exists is false for the name: no document
NoFile == [exists |-> FALSE, pages |-> <<>>]
Document(pages) == [exists |-> TRUE, pages |-> pages]

EmptyCells == [p \in {} |-> 0]

Page(name, cells) == [name |-> name, cells |-> cells]

SetMax(S) == CHOOSE x \in S : \A y \in S : y <= x

\* xlrd's nrows of a page: one more than the last row that holds a cell
NRows(cells) ==
    IF DOMAIN cells = {} THEN 0
    ELSE SetMax({p[1] : p \in DOMAIN cells}) + 1

\* the row numbers are added after every letter: the test of line 249 is
\* c.isalpha() and c.isupper, without a call of isupper
RECURSIVE Expand(_, _, _)
Expand(body, i, current_row) ==
    IF i > Len(body) THEN <<>>
    ELSE <<body[i]>>
         \o (IF IsAlpha(body[i]) /\ IsUpperAttr(body[i])
             THEN Str(current_row + 1) ELSE <<>>)
         \o Expand(body, i + 1, current_row)

\* what Worksheet.save writes for one item at row current_row
CellOf(item, current_row) ==
    IF StartsWithEq(item)
    THEN [t |-> "formula", v |-> Expand(Tail(item), 1, current_row)]
    ELSE [t |-> "label", v |-> item]

Event(ev, s, r, c, cell) == [ev |-> ev, sheet |-> s, row |-> r, col |-> c, cell |-> cell]
NoCell == [t |-> "none", v |-> <<>>]

\* the inner loop of Worksheet.save: one write per item, cindex from 0
RowWrites(s, current_row, items) ==
    [c \in 1..Len(items) |->
        Event("write", s, current_row, c - 1, CellOf(items[c], current_row))]

\* the loop with the row written before current_row is incremented
RECURSIVE SaveWritesCursorAfter(_, _, _, _)
SaveWritesCursorAfter(s, data, i, current_row) ==
    IF i > Len(data) THEN <<>>
    ELSE RowWrites(s, current_row, Split(data[i], TAB))
         \o SaveWritesCursorAfter(s, data, i + 1, current_row + 1)

\* the outer loop of Worksheet.save: current_row is incremented, then the row written
RECURSIVE SaveWrites(_, _, _, _)
SaveWrites(s, data, i, current_row) ==
    IF i > Len(data) THEN <<>>
    ELSE RowWrites(s, current_row + 1, Split(data[i], TAB))
         \o SaveWrites(s, data, i + 1, current_row + 1)

\* worksheet.write, for each write in order
RECURSIVE ApplyWrites(_, _, _)
ApplyWrites(cells, ws, i) ==
    IF i > Len(ws) THEN cells
    ELSE ApplyWrites((<<ws[i].row, ws[i].col>> :> ws[i].cell) @@ cells, ws, i + 1)

----------------------------------------------------------------------------
(* Worksheet *)

\* Worksheet.__init__ without xlrd_index and xlrd_sheet
NewWorksheet(title) ==
    [title |-> title, is_new |-> TRUE, current_row |-> -1, data |-> <<>>]

\* the cursor set to the row count, not to the last row
ExistingWorksheetAtCount(title, nrows) ==
    [title |-> title, is_new |-> FALSE, current_row |-> nrows, data |-> <<>>]

\* Worksheet.__init__ with the xlrd sheet of an existing document
ExistingWorksheet(title, nrows) ==
    [title |-> title, is_new |-> FALSE, current_row |-> nrows - 1, data |-> <<>>]

\* the cursor moved on by a save that wrote nothing
SavedWorksheetSkipping(ws) ==
    [ws EXCEPT !.current_row = ws.current_row + (IF Len(ws.data) = 0 THEN 1 ELSE Len(ws.data)),
               !.data = <<>>,
               !.is_new = FALSE]

\* a save that leaves is_new as it was
SavedWorksheetKeepingNew(ws) ==
    [ws EXCEPT !.current_row = ws.current_row + Len(ws.data),
               !.data = <<>>]

\* the fields of a sheet after Worksheet.save
SavedWorksheet(ws) ==
    [ws EXCEPT !.current_row = ws.current_row + Len(ws.data),
               !.data = <<>>,
               !.is_new = FALSE]

\* the item insertColumn takes for a data row, at j == position
DataItem(insert_items, j) ==
    IF insert_items.islist
    THEN IF PyInRange(insert_items.items, j - 1)
         THEN PyIndex(insert_items.items, j - 1)
         ELSE <<>>
    ELSE insert_items.item

\* the loop over j of insertColumn (j from 0): the new items of one row
RECURSIVE InsertItems(_, _, _, _, _, _)
InsertItems(items, j, position, insert_items, title, insert_title) ==
    IF j >= Len(items) THEN <<>>
    ELSE (IF j = position
          THEN <<IF insert_title THEN title ELSE DataItem(insert_items, j)>>
          ELSE <<>>)
         \o <<items[j + 1]>>
         \o InsertItems(items, j + 1, position, insert_items, title, insert_title)

\* insert_title after a row: it is cleared only where j == position was met
TitleLeft(items, position, insert_title) ==
    insert_title /\ ~(position \in 0..(Len(items) - 1))

\* the loop over i of insertColumn: the new data
RECURSIVE InsertRows(_, _, _, _, _, _)
InsertRows(data, i, position, insert_items, title, insert_title) ==
    IF i > Len(data) THEN <<>>
    ELSE LET items == Split(data[i], TAB)
         IN  <<Join(InsertItems(items, 0, position, insert_items, title, insert_title), TAB)>>
             \o InsertRows(data, i + 1, position, insert_items, title,
                           TitleLeft(items, position, insert_title))

\* the column inserted without the test of is_new
InsertColumnDataUnguarded(ws, position, insert_items, title) ==
    InsertRows(ws.data, 1, position, insert_items, title, TRUE)

\* Worksheet.insertColumn: the data afterwards
InsertColumnData(ws, position, insert_items, title) ==
    IF ~ws.is_new THEN ws.data
    ELSE InsertRows(ws.data, 1, position, insert_items, title, TRUE)

\* Worksheet.insertColumn: what it returns
InsertColumnResult(ws) == IF ~ws.is_new THEN Return(FALSE) ELSE Return(TRUE)

\* string.uppercase[i]: the module string is never imported
StringUppercase(i) == Raise("NameError")

\* Worksheet.getColumnId
GetColumnIdResult(data, name) ==
    IF Len(data) = 0 THEN Raise("IndexError")
    ELSE LET i == ListIndex(Split(data[1], TAB), name)
         IN  IF i = 0 THEN Raise("ValueError") ELSE StringUppercase(i - 1)

----------------------------------------------------------------------------
(* Workbook *)

\* the loop of Workbook.getSheet: the place of the first sheet with this title,
\* 0 when it ends without one (KeyError)
RECURSIVE GetSheetFrom(_, _, _)
GetSheetFrom(shs, title, i) ==
    IF i > Len(shs) THEN 0
    ELSE IF title = shs[i].title THEN i
    ELSE GetSheetFrom(shs, title, i + 1)

GetSheetIndex(shs, title) == GetSheetFrom(shs, title, 1)

\* a lookup that returns nothing, instead of raising, when no sheet has the title
GetSheetResultOrNone(shs, title) ==
    IF GetSheetIndex(shs, title) = 0 THEN None
    ELSE Return(GetSheetIndex(shs, title))

\* Workbook.getSheet: the sheet returned (its place in the list), or KeyError
GetSheetResult(shs, title) ==
    IF GetSheetIndex(shs, title) = 0 THEN Raise("KeyError")
    ELSE Return(GetSheetIndex(shs, title))

\* a Worksheet appended without the lookup of the title
AddSheetSheetsUnchecked(shs, title) == Append(shs, NewWorksheet(title))

\* Workbook.addSheet without xlrd arguments: the registry afterwards
AddSheetSheets(shs, title) ==
    IF GetSheetIndex(shs, title) # 0 THEN shs
    ELSE Append(shs, NewWorksheet(title))

\* Workbook.addSheet without xlrd arguments: the sheet returned
AddSheetResult(shs, title) ==
    IF GetSheetIndex(shs, title) # 0 THEN Return(GetSheetIndex(shs, title))
    ELSE Return(Len(shs) + 1)

\* Workbook.__init__ on an existing document: one Worksheet per page, in order
OpenSheets(doc) ==
    [i \in 1..Len(doc) |-> ExistingWorksheet(doc[i].name, NRows(doc[i].cells))]

\* the loop of Workbook.save: what the sheets from i on write, in order
RECURSIVE SaveAllLog(_, _)
SaveAllLog(shs, i) ==
    IF i > Len(shs) THEN <<>>
    ELSE <<Event("emit", i, 0, 0, NoCell)>>
         \o SaveWrites(i, shs[i].data, 1, shs[i].current_row)
         \o SaveAllLog(shs, i + 1)

\* the writes of a log that go to sheet s
WritesOf(lg, s) == SelectSeq(lg, LAMBDA e : e.ev = "write" /\ e.sheet = s)

\* the exception of self.workbook.save caught and dropped
PersistResultSwallowed(ok) == None

\* self.workbook.save(xls_name): it returns, or its exception leaves Workbook.save
PersistResult(ok) == IF ok THEN None ELSE Raise("IOError")

\* the workbook written to disk before the sheets are saved
SavedDocumentEarly(start, end) == Document(start)

\* the document self.workbook.save writes: the xlwt workbook as it is then
SavedDocument(start, end) == Document(end)

PersistEvent(ok) ==
    Event(IF ok THEN "persist" ELSE "persist_failed", 0, 0, 0, NoCell)

\* rows written and buffered, over all the sheets
RECURSIVE TotalRows(_, _)
TotalRows(shs, i) ==
    IF i > Len(shs) THEN 0
    ELSE shs[i].current_row + 1 + Len(shs[i].data) + TotalRows(shs, i + 1)

----------------------------------------------------------------------------
(* Spreadsheet *)

\* the keys of the style dictionary of addRow
StyleKeys == {"font", "alignment", "pattern"}

\* the orders style.keys() may yield: the order of a Python 2 dict follows the
\* hashes of the keys, not the order of the literal; it is fixed in a process
\* (pattern, font, alignment in CPython 2 without hash randomization)
KeyOrders ==
    {o \in [1..3 -> StyleKeys] : \A i, j \in 1..3 : i # j => o[i] # o[j]}

\* the style dictionary after the three tests of bold, wrap and bg_color;
\* an item of a list is the sequence of the pieces of its string
StyleDict(bold, wrap, bg_color) ==
    [font |-> IF bold THEN << <<"bold True">> >> ELSE <<>>,
     alignment |-> IF wrap THEN << <<"wrap True">> >> ELSE <<>>,
     pattern |-> IF bg_color # "" THEN << <<"pattern solid">>, <<"fore_color ", bg_color>> >>
                 ELSE <<>>]

\* the loop without the test of style[key]: a clause for every key
RECURSIVE EasyxfStyleEveryKey(_, _, _)
EasyxfStyleEveryKey(style, keys, i) ==
    IF i > Len(keys) THEN <<>>
    ELSE <<keys[i], ": ">> \o Join(style[keys[i]], ", ") \o <<"; ">>
         \o EasyxfStyleEveryKey(style, keys, i + 1)

\* the loop over style.keys(): the string easyxf_style, as its pieces
RECURSIVE EasyxfStyle(_, _, _)
EasyxfStyle(style, keys, i) ==
    IF i > Len(keys) THEN <<>>
    ELSE (IF Len(style[keys[i]]) > 0
          THEN <<keys[i], ": ">> \o Join(style[keys[i]], ", ") \o <<"; ">>
          ELSE <<>>)
         \o EasyxfStyle(style, keys, i + 1)

\* a cell written with a style
StyledCell(v, xf) == [t |-> "label", v |-> v, xf |-> xf]

\* xlrd's ncols of a page: one more than the last column that holds a cell
NCols(cells) ==
    IF DOMAIN cells = {} THEN 0
    ELSE SetMax({p[2] : p \in DOMAIN cells}) + 1

\* rs.cell(r, c).value: the empty string where the document holds no cell
CellValue(cells, r, c) == IF <<r, c>> \in DOMAIN cells THEN cells[<<r, c>>].v ELSE <<>>

\* the loop of Spreadsheet.__init__ over the rows from rindex on: the values of
\* the first row whose first cell is not empty
RECURSIVE ReadHeaders(_, _)
ReadHeaders(cells, rindex) ==
    IF rindex >= NRows(cells) THEN <<>>
    ELSE IF CellValue(cells, rindex, 0) # <<>>
         THEN [c \in 1..NCols(cells) |-> CellValue(cells, rindex, c - 1)]
         ELSE ReadHeaders(cells, rindex + 1)

\* no column width has been set
NoWidths == [c \in {} |-> 0]

\* Spreadsheet.__init__ on an existing file: current_row = rs.nrows
ExistingSpreadsheet(pages) ==
    [made |-> TRUE, workbook |-> pages,
     current_row |-> NRows(pages[1].cells),
     headers |-> ReadHeaders(pages[1].cells, 0),
     widths |-> NoWidths, added |-> 0]

\* Spreadsheet.__init__ when there is no file of the name
NewSpreadsheet(title) ==
    [made |-> TRUE, workbook |-> <<Page(title, EmptyCells)>>,
     current_row |-> -1, headers |-> <<>>, widths |-> NoWidths, added |-> 0]

\* the place of the first item of data that starts with =, 0 when there is none
RECURSIVE FirstFormula(_, _)
FirstFormula(data, i) ==
    IF i > Len(data) THEN 0
    ELSE IF StartsWithEq(data[i]) THEN i
    ELSE FirstFormula(data, i + 1)

\* the items addRow writes: those before the first formula item, where line 396
\* raises NameError (cindex_item is not defined)
ItemsWritten(data) ==
    IF FirstFormula(data, 1) = 0 THEN data
    ELSE SubSeq(data, 1, FirstFormula(data, 1) - 1)

\* the loop of addRow over data: one write per item, cindex from 0
RowWritesStyled(current_row, items, xf) ==
    [c \in 1..Len(items) |->
        Event("write", 1, current_row, c - 1, StyledCell(items[c], xf))]

\* what addRow returns, or the error that leaves it
AddRowResult(current_row, data) ==
    IF FirstFormula(data, 1) = 0 THEN Return(current_row) ELSE Raise("NameError")

\* self.sheet.col(cindex).width = 256*(len(item)+5), for each item written
WidthsSet(widths, items) ==
    [c \in (DOMAIN widths) \cup (0..(Len(items) - 1)) |->
        IF c < Len(items) THEN 256 * (Len(items[c + 1]) + 5) ELSE widths[c]]

\* the Spreadsheet after addRow: the cursor moved on by one, the items written
\* to the first page at that row
AddRowSpreadsheet(ss, data, set_widths, xf) ==
    LET row == ss.current_row + 1
        items == ItemsWritten(data)
        cells == ApplyWrites(ss.workbook[1].cells, RowWritesStyled(row, items, xf), 1)
    IN  [ss EXCEPT !.current_row = row,
                   !.added = ss.added + 1,
                   !.workbook = [ss.workbook EXCEPT ![1].cells = cells],
                   !.widths = IF set_widths THEN WidthsSet(ss.widths, items) ELSE ss.widths]

\* the style string addRow has built, as an entry of the log
StyleEvent(xf) == Event("easyxf", 1, 0, 0, [t |-> "style", v |-> xf])

\* the row addEmptyRow makes for a colour: an empty string for each header
RECURSIVE EmptyItems(_)
EmptyItems(headers) ==
    IF Len(headers) = 0 THEN <<>> ELSE << <<>> >> \o EmptyItems(Tail(headers))

----------------------------------------------------------------------------
(* The inputs the model draws from. *)

SheetTitles == {"s1", "s2"}
\* the titles looked up: the titles of the sheets, and one that differs in case only
LookupTitles == {"s1", "s2", "S1"}

RowHB == <<"h", TAB, "b">>
RowF == <<"=", "A", "+", "b">>

RowLists == {<<RowF>>}
BufferRowLists == {<<RowHB>>, <<RowF>>, <<RowHB, RowHB>>}

TextInputs == {<<"h", TAB, "b", NL>>}

\* insert_items: a single item, or a list of items
Scalar(v) == [islist |-> FALSE, item |-> v, items |-> <<>>]
List(v) == [islist |-> TRUE, item |-> <<>>, items |-> v]
\* the arguments of the insertColumn calls
Positions == {0, 1, 2}
InsertValues == {List(<< <<"1">>, <<"2">> >>), List(<< <<"1">> >>), Scalar(<<"v">>)}
ColumnTitles == {<<"T">>}

ColumnNames == {<<"h">>, <<"b">>, <<"z">>}

LabelCell(v) == [t |-> "label", v |-> v]

\* the arguments of the Spreadsheet calls
ItemH == <<"h">>
ItemB == <<"b">>
ItemF == <<"=", "A">>
DataRows == {<<ItemH, ItemB>>, <<ItemH, ItemF>>}
HeaderLists == {<<ItemH, ItemB>>}
Colors == {"", "red"}
SpreadsheetTitles == {"s1"}

\* the documents that may be on disk at the start
DocOneRow ==
    Document(<<Page("s1", (<<0, 0>> :> LabelCell(<<"h">>)) @@ (<<0, 1>> :> LabelCell(<<"b">>)))>>)
InitialFiles == {NoFile, DocOneRow}

----------------------------------------------------------------------------
(* The operations. *)

\* Workbook.__init__ on the document on disk
WorkbookInit(doc) ==
    /\ sheets' = IF ~doc.exists THEN <<>> ELSE OpenSheets(doc.pages)
    /\ grid' = IF ~doc.exists THEN <<>> ELSE doc.pages
    /\ opened' = IF ~doc.exists THEN <<>>
                 ELSE [i \in 1..Len(doc.pages) |-> NRows(doc.pages[i].cells)]

\* no Spreadsheet object has been constructed
NoSpreadsheet ==
    [made |-> FALSE, workbook |-> <<>>, current_row |-> -1, headers |-> <<>>,
     widths |-> NoWidths, added |-> 0]

Init ==
    /\ file \in InitialFiles
    /\ sheets = IF ~file.exists THEN <<>> ELSE OpenSheets(file.pages)
    /\ grid = IF ~file.exists THEN <<>> ELSE file.pages
    /\ opened = IF ~file.exists THEN <<>>
                ELSE [i \in 1..Len(file.pages) |-> NRows(file.pages[i].cells)]
    /\ before = [sheets |-> <<>>, grid |-> <<>>, spreadsheet |-> NoSpreadsheet, styles |-> {}]
    /\ call = [op |-> "Workbook"]
    /\ result = None
    /\ log = <<>>
    /\ spreadsheet = NoSpreadsheet
    /\ style_keys = <<>>
    /\ styles = {}

\* the state an operation starts in
Before == [sheets |-> sheets, grid |-> grid, spreadsheet |-> spreadsheet, styles |-> styles]

\* a new Workbook is constructed on the document on disk
Open ==
    /\ WorkbookInit(file)
    /\ before' = Before
    /\ call' = [op |-> "Workbook"]
    /\ result' = None
    /\ log' = <<>>
    /\ UNCHANGED file
    /\ UNCHANGED ssvars

AddSheet(title) ==
    /\ GetSheetIndex(sheets, title) = 0 => Len(sheets) < MaxSheets
    /\ sheets' = AddSheetSheets(sheets, title)
    /\ grid' = IF Len(sheets') > Len(sheets)
               THEN Append(grid, Page(title, EmptyCells)) ELSE grid
    /\ before' = Before
    /\ call' = [op |-> "addSheet", title |-> title]
    /\ result' = AddSheetResult(sheets, title)
    /\ log' = <<>>
    /\ UNCHANGED <<file, opened>>
    /\ UNCHANGED ssvars

GetSheet(title) ==
    /\ before' = Before
    /\ call' = [op |-> "getSheet", title |-> title]
    /\ result' = GetSheetResult(sheets, title)
    /\ log' = <<>>
    /\ UNCHANGED <<sheets, grid, file, opened>>
    /\ UNCHANGED ssvars

AddTabData(s, rows) ==
    /\ TotalRows(sheets, 1) + Len(rows) <= MaxRows
    /\ sheets' = [sheets EXCEPT ![s].data = sheets[s].data \o rows]
    /\ before' = Before
    /\ call' = [op |-> "addTabData", sheet |-> s, rows |-> rows]
    /\ result' = None
    /\ log' = <<>>
    /\ UNCHANGED <<grid, file, opened>>
    /\ UNCHANGED ssvars

AddText(s, text) ==
    /\ TotalRows(sheets, 1) + Len(Split(text, NL)) <= MaxRows
    /\ sheets' = [sheets EXCEPT ![s].data = sheets[s].data \o Split(text, NL)]
    /\ before' = Before
    /\ call' = [op |-> "addText", sheet |-> s, text |-> text]
    /\ result' = None
    /\ log' = <<>>
    /\ UNCHANGED <<grid, file, opened>>
    /\ UNCHANGED ssvars

\* insertColumn that also marks the sheet as no longer new
InsertColumnMarkingOld(s, position, insert_items, title) ==
    /\ \A i \in 1..Len(sheets[s].data) : Len(Split(sheets[s].data[i], TAB)) <= MaxCols
    /\ sheets' = [sheets EXCEPT ![s].data =
                     InsertColumnData(sheets[s], position, insert_items, title),
                                ![s].is_new = FALSE]
    /\ before' = Before
    /\ call' = [op |-> "insertColumn", sheet |-> s, position |-> position,
                values |-> insert_items, title |-> title]
    /\ result' = InsertColumnResult(sheets[s])
    /\ log' = <<>>
    /\ UNCHANGED <<grid, file, opened>>
    /\ UNCHANGED ssvars

InsertColumn(s, position, insert_items, title) ==
    /\ \A i \in 1..Len(sheets[s].data) : Len(Split(sheets[s].data[i], TAB)) <= MaxCols
    /\ sheets' = [sheets EXCEPT ![s].data =
                     InsertColumnData(sheets[s], position, insert_items, title)]
    /\ before' = Before
    /\ call' = [op |-> "insertColumn", sheet |-> s, position |-> position,
                values |-> insert_items, title |-> title]
    /\ result' = InsertColumnResult(sheets[s])
    /\ log' = <<>>
    /\ UNCHANGED <<grid, file, opened>>
    /\ UNCHANGED ssvars

GetColumnId(s, name) ==
    /\ before' = Before
    /\ call' = [op |-> "getColumnId", sheet |-> s, name |-> name]
    /\ result' = GetColumnIdResult(sheets[s].data, name)
    /\ log' = <<>>
    /\ UNCHANGED <<sheets, grid, file, opened>>
    /\ UNCHANGED ssvars

\* Worksheet.save, called on one sheet
SheetSave(s) ==
    /\ log' = SaveWrites(s, sheets[s].data, 1, sheets[s].current_row)
    /\ grid' = [grid EXCEPT ![s].cells = ApplyWrites(grid[s].cells, log', 1)]
    /\ sheets' = [sheets EXCEPT ![s] = SavedWorksheet(sheets[s])]
    /\ before' = Before
    /\ call' = [op |-> "Worksheet.save", sheet |-> s]
    /\ result' = None
    /\ UNCHANGED <<file, opened>>
    /\ UNCHANGED ssvars

\* Workbook.save: every sheet is saved, then the xlwt workbook is written to disk
Save(ok) ==
    /\ log' = SaveAllLog(sheets, 1) \o <<PersistEvent(ok)>>
    /\ grid' = [i \in 1..Len(grid) |->
                  [grid[i] EXCEPT !.cells = ApplyWrites(grid[i].cells, WritesOf(log', i), 1)]]
    /\ sheets' = [i \in 1..Len(sheets) |-> SavedWorksheet(sheets[i])]
    /\ file' = IF ok THEN SavedDocument(grid, grid') ELSE file
    /\ before' = Before
    /\ call' = [op |-> "Workbook.save"]
    /\ result' = PersistResult(ok)
    /\ UNCHANGED opened
    /\ UNCHANGED ssvars

\* Spreadsheet.__init__ on the document on disk
SpreadsheetOpen(title) ==
    /\ spreadsheet' = IF ~file.exists THEN NewSpreadsheet(title)
                      ELSE ExistingSpreadsheet(file.pages)
    /\ opened' = IF ~file.exists THEN <<>>
                 ELSE [i \in 1..Len(file.pages) |-> NRows(file.pages[i].cells)]
    /\ before' = Before
    /\ call' = [op |-> "Spreadsheet", title |-> title]
    /\ result' = None
    /\ log' = <<>>
    /\ UNCHANGED <<sheets, grid, file, style_keys, styles>>

\* the body of addRow on the Spreadsheet ss: the style string is built in the
\* order of style.keys(), the cursor is moved on and the items are written
AddRowStep(ss, data, set_widths, bold, wrap, bg_color) ==
    \E keys \in (IF style_keys = <<>> THEN KeyOrders ELSE {style_keys}) :
        LET xf == EasyxfStyle(StyleDict(bold, wrap, bg_color), keys, 1)
        IN  /\ spreadsheet' = AddRowSpreadsheet(ss, data, set_widths, xf)
            /\ style_keys' = keys
            /\ styles' = styles \cup {[bold |-> bold, wrap |-> wrap,
                                       bg_color |-> bg_color, xf |-> xf]}
            /\ result' = AddRowResult(ss.current_row + 1, data)
            /\ log' = <<StyleEvent(xf)>>
                       \o RowWritesStyled(ss.current_row + 1, ItemsWritten(data), xf)

AddRow(data, set_widths, bold, wrap, bg_color) ==
    /\ spreadsheet.made
    /\ spreadsheet.current_row + 1 <= MaxSpreadsheetRow
    /\ AddRowStep(spreadsheet, data, set_widths, bold, wrap, bg_color)
    /\ before' = Before
    /\ call' = [op |-> "addRow", data |-> data, set_widths |-> set_widths,
                bold |-> bold, wrap |-> wrap, bg_color |-> bg_color]
    /\ UNCHANGED <<sheets, grid, file, opened>>

\* addTitleRow: the headers are kept, the cursor is moved on, and addRow is
\* called for the headers, in bold and setting the widths
AddTitleRow(headers) ==
    /\ spreadsheet.made
    /\ spreadsheet.current_row + 2 <= MaxSpreadsheetRow
    /\ AddRowStep([spreadsheet EXCEPT !.headers = headers,
                                      !.current_row = spreadsheet.current_row + 1],
                  headers, TRUE, TRUE, FALSE, "")
    /\ before' = Before
    /\ call' = [op |-> "addTitleRow", headers |-> headers]
    /\ UNCHANGED <<sheets, grid, file, opened>>

\* addEmptyRow: without a colour the cursor is moved on; with one, addRow is
\* called for a row of an empty string for each header
AddEmptyRow(color) ==
    /\ spreadsheet.made
    /\ spreadsheet.current_row + 1 <= MaxSpreadsheetRow
    /\ IF color = ""
       THEN /\ spreadsheet' = [spreadsheet EXCEPT !.current_row = spreadsheet.current_row + 1,
                                                  !.added = spreadsheet.added + 1]
            /\ result' = Return(spreadsheet.current_row + 1)
            /\ log' = <<>>
            /\ UNCHANGED <<style_keys, styles>>
       ELSE AddRowStep(spreadsheet, EmptyItems(spreadsheet.headers),
                       FALSE, FALSE, FALSE, color)
    /\ before' = Before
    /\ call' = [op |-> "addEmptyRow", color |-> color]
    /\ UNCHANGED <<sheets, grid, file, opened>>

\* Spreadsheet.write: the xlwt workbook is written to the file
Write(ok) ==
    /\ spreadsheet.made
    /\ file' = IF ok THEN Document(spreadsheet.workbook) ELSE file
    /\ before' = Before
    /\ call' = [op |-> "write"]
    /\ result' = PersistResult(ok)
    /\ log' = <<PersistEvent(ok)>>
    /\ UNCHANGED <<sheets, grid, opened, spreadsheet, style_keys, styles>>

\* The Workbook and its document: sheets are registered, rows are buffered,
\* sheets and the workbook are saved, and the document is opened again.
Next ==
    \/ Open
    \/ \E title \in SheetTitles : AddSheet(title)
    \/ \E title \in LookupTitles : GetSheet(title)
    \/ \E s \in 1..Len(sheets), rows \in RowLists : AddTabData(s, rows)
    \/ \E s \in 1..Len(sheets), text \in TextInputs : AddText(s, text)
    \/ \E s \in 1..Len(sheets) : SheetSave(s)
    \/ \E ok \in BOOLEAN : Save(ok)

Spec == Init /\ [][Next]_vars

\* One Worksheet and its row buffer: rows are buffered, columns are inserted
\* and looked up, and the sheet is saved.
NextSheet ==
    \/ AddSheet("s1")
    \/ \E s \in 1..Len(sheets), rows \in BufferRowLists : AddTabData(s, rows)
    \/ \E s \in 1..Len(sheets), text \in TextInputs : AddText(s, text)
    \/ \E s \in 1..Len(sheets), position \in Positions,
          insert_items \in InsertValues, title \in ColumnTitles :
            InsertColumn(s, position, insert_items, title)
    \/ \E s \in 1..Len(sheets), name \in ColumnNames : GetColumnId(s, name)
    \/ \E s \in 1..Len(sheets) : SheetSave(s)

SpecSheet == Init /\ [][NextSheet]_vars

\* The Spreadsheet and its file: it is constructed on the file, rows are added,
\* and the workbook is written to the file.
NextSpreadsheet ==
    \/ \E title \in SpreadsheetTitles : SpreadsheetOpen(title)
    \/ \E data \in DataRows, set_widths \in BOOLEAN :
            AddRow(data, set_widths, FALSE, FALSE, "")
    \/ \E headers \in HeaderLists : AddTitleRow(headers)
    \/ \E color \in Colors : AddEmptyRow(color)
    \/ \E ok \in BOOLEAN : Write(ok)

SpecSpreadsheet == Init /\ [][NextSpreadsheet]_vars

\* The styles of the rows of a Spreadsheet: rows are added with every
\* combination of bold, wrap and background colour.
NextStyle ==
    \/ \E title \in SpreadsheetTitles : SpreadsheetOpen(title)
    \/ \E bold \in BOOLEAN, wrap \in BOOLEAN, bg_color \in Colors :
            AddRow(<<>>, FALSE, bold, wrap, bg_color)
    \/ \E headers \in HeaderLists : AddTitleRow(headers)
    \/ \E color \in Colors : AddEmptyRow(color)

SpecStyle == Init /\ [][NextStyle]_vars

----------------------------------------------------------------------------
(* Properties. *)

Range(seq) == {seq[i] : i \in 1..Len(seq)}

\* the last operation saved sheet s: Worksheet.save on it, or Workbook.save
Emitted(s) ==
    \/ call.op = "Worksheet.save" /\ call.sheet = s
    \/ call.op = "Workbook.save"

\* row r of a cell map holds exactly the items of a buffered row, one cell per
\* item from column 0: a label cell with the item, or a formula cell
RowHolds(cells, r, row) ==
    LET items == Split(row, TAB)
    IN  /\ {p \in DOMAIN cells : p[1] = r} = {<<r, c>> : c \in 0..(Len(items) - 1)}
        /\ \A c \in 0..(Len(items) - 1) :
              IF StartsWithEq(items[c + 1])
              THEN cells[<<r, c>>].t = "formula"
              ELSE cells[<<r, c>>] = [t |-> "label", v |-> items[c + 1]]

\* C1: a save of a sheet that holds N rows and has M rows buffered leaves the
\* sheet with exactly N+M rows, writes no cell of rows 0..N-1 and changes none
\* of them, and row N+k holds the k-th buffered row (k = 0..M-1); in
\* particular for a sheet of a Workbook opened on an existing document.
C1_AppendAfterExisting ==
    \A s \in 1..Len(before.sheets) :
        Emitted(s) =>
            LET N == NRows(before.grid[s].cells)
                M == Len(before.sheets[s].data)
            IN  /\ NRows(grid[s].cells) = N + M
                /\ \A e \in Range(WritesOf(log, s)) : e.row >= N
                /\ \A p \in DOMAIN before.grid[s].cells :
                      /\ p \in DOMAIN grid[s].cells
                      /\ grid[s].cells[p] = before.grid[s].cells[p]
                /\ \A k \in 0..(M - 1) :
                      RowHolds(grid[s].cells, N + k, before.sheets[s].data[k + 1])

\* a sheet opened with N >= 1 rows has just had its M = 2 buffered rows saved,
\* to rows N and N+1
C1_Witness ==
    /\ call.op \in {"Worksheet.save", "Workbook.save"}
    /\ \E s \in 1..Len(opened) :
          /\ Emitted(s)
          /\ opened[s] >= 1
          /\ NRows(before.grid[s].cells) = opened[s]
          /\ Len(before.sheets[s].data) = 2
          /\ NRows(grid[s].cells) = opened[s] + 2

\* C2: insertColumn on a fresh sheet gives the row at buffer index 0 the title
\* and the row at buffer index i >= 1 the item values[i-1] of a list (the empty
\* item past its end), or the scalar, at the insert position.
C2_HeaderRelativeValues ==
    (call.op = "insertColumn" /\ before.sheets[call.sheet].is_new) =>
        \A i \in 1..Len(sheets[call.sheet].data) :
            LET items == Split(sheets[call.sheet].data[i], TAB)
                pos == call.position
                vals == call.values
                expected ==
                    IF i = 1 THEN call.title
                    ELSE IF vals.islist
                         THEN IF i - 1 <= Len(vals.items)
                              THEN vals.items[i - 1] ELSE <<>>
                         ELSE vals.item
            IN  Len(items) > pos /\ items[pos + 1] = expected

\* C3: a successful insertColumn keeps the number of rows and makes every row
\* one item longer: the items before the position stay, the others move one
\* place to the right.
C3_SpliceEveryRow ==
    (call.op = "insertColumn" /\ result = Return(TRUE)) =>
        /\ Len(sheets[call.sheet].data) = Len(before.sheets[call.sheet].data)
        /\ \A i \in 1..Len(before.sheets[call.sheet].data) :
              LET old == Split(before.sheets[call.sheet].data[i], TAB)
                  new == Split(sheets[call.sheet].data[i], TAB)
                  pos == call.position
              IN  /\ Len(new) = Len(old) + 1
                  /\ \A p \in 1..Len(old) :
                        IF p <= pos THEN new[p] = old[p] ELSE new[p + 1] = old[p]

\* C4: insertColumn on a sheet that is not new returns False and leaves the
\* sheets (their buffers and cursors) and the workbook's cells as they were.
C4_NotNewRejected ==
    (call.op = "insertColumn" /\ ~before.sheets[call.sheet].is_new) =>
        /\ result = Return(FALSE)
        /\ sheets = before.sheets
        /\ grid = before.grid

\* insertColumn has just been refused on a sheet with rows in its buffer
C4_Witness ==
    /\ call.op = "insertColumn"
    /\ result = Return(FALSE)
    /\ ~before.sheets[call.sheet].is_new
    /\ Len(before.sheets[call.sheet].data) >= 1

\* the rewriting the formula shorthand is given: the row number after each
\* uppercase letter, every other character as it is
RECURSIVE UpperExpand(_, _, _)
UpperExpand(body, i, row) ==
    IF i > Len(body) THEN <<>>
    ELSE <<body[i]>>
         \o (IF body[i] \in Upper THEN Str(row + 1) ELSE <<>>)
         \o UpperExpand(body, i + 1, row)

\* C5: an item that starts with = is written, at 0-based row r, as the formula
\* with the decimal form of r+1 after each uppercase letter and every other
\* character unchanged.
C5_FormulaRewrite ==
    \A s \in 1..Len(before.sheets) :
        Emitted(s) =>
            \A k \in 1..Len(before.sheets[s].data) :
                LET r == before.sheets[s].current_row + k
                    items == Split(before.sheets[s].data[k], TAB)
                IN  \A c \in 1..Len(items) :
                        StartsWithEq(items[c]) =>
                            grid[s].cells[<<r, c - 1>>] =
                                [t |-> "formula", v |-> UpperExpand(Tail(items[c]), 1, r)]

\* C6: a save of a sheet whose buffer is empty writes no cell of it and leaves
\* its cells and its cursor as they were, each time it is done.
C6_EmptyEmitNoOp ==
    \A s \in 1..Len(before.sheets) :
        (Emitted(s) /\ Len(before.sheets[s].data) = 0) =>
            /\ WritesOf(log, s) = <<>>
            /\ grid[s].cells = before.grid[s].cells
            /\ sheets[s].current_row = before.sheets[s].current_row

\* a Workbook whose buffers were already empty, after an earlier save of rows,
\* has just been saved again
C6_Witness ==
    /\ call.op = "Workbook.save"
    /\ opened = <<>>
    /\ \E s \in 1..Len(before.sheets) :
          /\ before.sheets[s].current_row >= 0
          /\ ~before.sheets[s].is_new
    /\ \A s \in 1..Len(before.sheets) : Len(before.sheets[s].data) = 0

UniqueTitles(shs) ==
    \A i, j \in 1..Len(shs) : i # j => shs[i].title # shs[j].title

\* C7: no two registered sheets have the same title, and addSheet with a
\* registered title returns that sheet and leaves the registry, the sheets and
\* the workbook as they were.
C7_UniqueTitles ==
    /\ UniqueTitles(sheets)
    /\ call.op = "addSheet" =>
          \A i \in 1..Len(before.sheets) :
              before.sheets[i].title = call.title =>
                  /\ result = Return(i)
                  /\ sheets = before.sheets
                  /\ grid = before.grid

\* addSheet has just been called with the title of the first of two sheets,
\* which has rows buffered
C7_Witness ==
    /\ call.op = "addSheet"
    /\ Len(before.sheets) = 2
    /\ before.sheets[1].title = call.title
    /\ Len(before.sheets[1].data) >= 1

\* the column letter of a 0-based column
ColumnLetter(i) ==
    <<"A", "B", "C", "D", "E", "F", "G", "H", "I", "J", "K", "L", "M",
      "N", "O", "P", "Q", "R", "S", "T", "U", "V", "W", "X", "Y", "Z">>[i + 1]

\* the exception getColumnId raises in its except clause
ColumnNotFound == "IndexError"

\* C8: getColumnId returns the letter of the place of the name in the first
\* buffered row, and raises the one column-not-found error both when the
\* buffer is empty and when no item of the first row is the name.
C8_ColumnLookup ==
    call.op = "getColumnId" =>
        LET data == before.sheets[call.sheet].data
            items == Split(data[1], TAB)
        IN  IF Len(data) >= 1 /\ \E p \in 1..Len(items) : items[p] = call.name
            THEN \E p \in 1..Len(items) :
                    /\ items[p] = call.name
                    /\ \A q \in 1..(p - 1) : items[q] # call.name
                    /\ result = Return(ColumnLetter(p - 1))
            ELSE result = Raise(ColumnNotFound)

\* C9: Workbook.save saves every sheet, in registration order, and only then
\* writes the workbook to disk; when it returns, every buffer is empty and
\* every row that was buffered is in the document written.
C9_FinalizeOrder ==
    call.op = "Workbook.save" =>
        /\ Len(sheets) = Len(before.sheets)
        /\ log[Len(log)].ev \in {"persist", "persist_failed"}
        /\ \A k \in 1..(Len(log) - 1) : log[k].ev \in {"emit", "write"}
        /\ LET emits == SelectSeq(log, LAMBDA e : e.ev = "emit")
           IN  /\ Len(emits) = Len(before.sheets)
               /\ \A i \in 1..Len(emits) : emits[i].sheet = i
        /\ \A k \in 1..Len(log) :
              log[k].ev = "write" =>
                  log[k].sheet = Len(SelectSeq(SubSeq(log, 1, k), LAMBDA e : e.ev = "emit"))
        /\ result = None =>
              \A s \in 1..Len(before.sheets) :
                  /\ Len(sheets[s].data) = 0
                  /\ \A k \in 1..Len(before.sheets[s].data) :
                        RowHolds(file.pages[s].cells, before.sheets[s].current_row + k,
                                 before.sheets[s].data[k])

\* Workbook.save has just returned after writing buffered rows of two sheets
C9_Witness ==
    /\ call.op = "Workbook.save"
    /\ result = None
    /\ Len(before.sheets) = 2
    /\ \A s \in 1..2 : Len(before.sheets[s].data) >= 1

\* C10: when writing the workbook to disk fails, Workbook.save raises.
C10_PersistFailureSurfaces ==
    (call.op = "Workbook.save" /\ log[Len(log)].ev = "persist_failed") =>
        result.kind = "raise"

\* the write to disk has just failed after buffered rows of a sheet were
\* written to the workbook
C10_Witness ==
    /\ call.op = "Workbook.save"
    /\ log[Len(log)].ev = "persist_failed"
    /\ \E s \in 1..Len(before.sheets) : Len(before.sheets[s].data) >= 1
    /\ \A s \in 1..Len(sheets) : Len(sheets[s].data) = 0

\* the error getSheet raises when no sheet has the title
SheetNotFound == "KeyError"

\* C11: getSheet returns the registered sheet whose title is exactly the title
\* asked for, raises the sheet-not-found error when there is none, and in both
\* cases leaves the registry, the sheets and the workbook as they were.
C11_GetSheetExact ==
    call.op = "getSheet" =>
        /\ sheets = before.sheets
        /\ grid = before.grid
        /\ IF \E i \in 1..Len(before.sheets) : before.sheets[i].title = call.title
           THEN /\ result.kind = "return"
                /\ result.value \in 1..Len(before.sheets)
                /\ before.sheets[result.value].title = call.title
           ELSE result = Raise(SheetNotFound)

\* getSheet has just been asked for a title that differs only in case from
\* the title of a registered sheet with rows buffered, and has raised
C11_Witness ==
    /\ call.op = "getSheet"
    /\ call.title = "S1"
    /\ result.kind = "raise"
    /\ \E i \in 1..Len(sheets) : sheets[i].title = "s1" /\ Len(sheets[i].data) >= 1

\* the clause of one attribute group for bold, wrap and a background colour:
\* nothing when the group is not active
Clause(group, bold, wrap, bg_color) ==
    IF group = "font"
    THEN IF bold THEN <<"font", ": ", "bold True", "; ">> ELSE <<>>
    ELSE IF group = "alignment"
    THEN IF wrap THEN <<"alignment", ": ", "wrap True", "; ">> ELSE <<>>
    ELSE IF bg_color # ""
         THEN <<"pattern", ": ", "pattern solid", ", ", "fore_color ", bg_color, "; ">>
         ELSE <<>>

\* the clauses of the groups, in the order given
Clauses(order, bold, wrap, bg_color) ==
    Clause(order[1], bold, wrap, bg_color)
    \o Clause(order[2], bold, wrap, bg_color)
    \o Clause(order[3], bold, wrap, bg_color)

\* equal bold, wrap and background colour gave equal style strings, and none
\* of the three gave the empty string
StylePure ==
    /\ \A p, q \in styles :
          (p.bold = q.bold /\ p.wrap = q.wrap /\ p.bg_color = q.bg_color) => p.xf = q.xf
    /\ \A p \in styles : (~p.bold /\ ~p.wrap /\ p.bg_color = "") => p.xf = <<>>

\* C12 as stated: the style string of addRow depends only on bold, wrap and
\* the background colour, its clauses are in the order font, alignment,
\* pattern, and it is empty when none of the three is set.
C12_StyleFixedOrder ==
    /\ StylePure
    /\ \A p \in styles :
          p.xf = Clauses(<<"font", "alignment", "pattern">>, p.bold, p.wrap, p.bg_color)

\* C12 as amended: the style string of addRow depends only on bold, wrap and
\* the background colour, its clauses are in the order in which the style
\* dictionary yields its keys, the same order in every call of the process,
\* and it is empty when none of the three is set.
C12_StyleKeyOrder ==
    /\ StylePure
    /\ \A p \in styles :
          /\ style_keys \in KeyOrders
          /\ p.xf = Clauses(style_keys, p.bold, p.wrap, p.bg_color)

\* addRow has just been called with bold, wrap and a colour, as an earlier
\* call was, after a call with none of them
C12_Witness ==
    /\ call.op = "addRow"
    /\ call.bold /\ call.wrap /\ call.bg_color # ""
    /\ \E p \in before.styles :
          p.bold /\ p.wrap /\ p.bg_color = call.bg_color
    /\ \E p \in before.styles : ~p.bold /\ ~p.wrap /\ p.bg_color = ""

\* the places <<row, column>> of the tokens of buffered rows written from the
\* row after cursor on: row by row, and in a row token by token from column 0
RECURSIVE PlacesFrom(_, _, _)
PlacesFrom(data, k, cursor) ==
    IF k > Len(data) THEN <<>>
    ELSE [c \in 1..Len(Split(data[k], TAB)) |-> <<cursor + k, c - 1>>]
         \o PlacesFrom(data, k + 1, cursor)

\* the tokens of buffered rows, row by row
RECURSIVE TokensFrom(_, _)
TokensFrom(data, k) ==
    IF k > Len(data) THEN <<>>
    ELSE Split(data[k], TAB) \o TokensFrom(data, k + 1)

\* C13: a save of a sheet writes the buffered rows in the order they were
\* added, the k-th (k from 0) to row cursor+1+k with each token at the column
\* of its place in the row; the cursor is then the cursor before plus the
\* number of buffered rows, empty rows included; and no row is written for two
\* buffered rows: every cell of a sheet is at or below its cursor, and a save
\* writes above the cursor only.
C13_RowsInOrder ==
    /\ \A s \in 1..Len(sheets) :
          \A p \in DOMAIN grid[s].cells : p[1] <= sheets[s].current_row
    /\ \A s \in 1..Len(before.sheets) :
          Emitted(s) =>
              LET cursor == before.sheets[s].current_row
                  data == before.sheets[s].data
                  writes == WritesOf(log, s)
                  places == PlacesFrom(data, 1, cursor)
                  tokens == TokensFrom(data, 1)
              IN  /\ Len(writes) = Len(places)
                  /\ \A n \in 1..Len(writes) :
                        /\ <<writes[n].row, writes[n].col>> = places[n]
                        /\ writes[n].row > cursor
                        /\ IF StartsWithEq(tokens[n])
                           THEN writes[n].cell.t = "formula"
                           ELSE writes[n].cell = [t |-> "label", v |-> tokens[n]]
                        /\ grid[s].cells[places[n]] = writes[n].cell
                  /\ sheets[s].current_row = cursor + Len(data)

\* a new sheet that was saved before has just been saved again with two rows
\* buffered, one of them empty
C13_Witness ==
    /\ opened = <<>>
    /\ \E s \in 1..Len(before.sheets) :
          /\ Emitted(s)
          /\ before.sheets[s].current_row >= 0
          /\ Len(before.sheets[s].data) = 2
          /\ \E k \in 1..2 : before.sheets[s].data[k] = <<>>

\* the last operation added a row to the Spreadsheet
RowAdded == call.op \in {"addRow", "addTitleRow", "addEmptyRow"}

\* C14: a Spreadsheet constructed on a file whose first sheet has N rows starts
\* with its cursor at N-1, and the first row added to it is row N: the row
\* after the existing ones, none of them written again and no row left out.
C14_SpreadsheetAppends ==
    (spreadsheet.made /\ opened # <<>>) =>
        LET N == opened[1]
        IN  /\ call.op = "Spreadsheet" => spreadsheet.current_row = N - 1
            /\ RowAdded => \A e \in Range(log) : e.ev = "write" => e.row >= N
            /\ (RowAdded /\ spreadsheet.added = 1) =>
                  /\ spreadsheet.current_row = N
                  /\ result.kind = "return" => result.value = N
                  /\ \A e \in Range(log) : e.ev = "write" => e.row = N

\* C15: is_new only goes from true to false: the sheets of a Workbook opened
\* on a document are not new, a save of a sheet with rows buffered leaves it
\* not new, no operation makes a sheet that is not new new again, and a
\* sheet with rows written is not new, so that insertColumn on it fails.
C15_NewOnlyFalls ==
    /\ call.op = "Workbook" => \A s \in 1..Len(sheets) : ~sheets[s].is_new
    /\ \A s \in 1..Len(before.sheets) :
          /\ (Emitted(s) /\ Len(before.sheets[s].data) >= 1) => ~sheets[s].is_new
          /\ (s <= Len(sheets) /\ ~before.sheets[s].is_new) => ~sheets[s].is_new
    /\ \A s \in 1..Len(sheets) : sheets[s].current_row >= 0 => ~sheets[s].is_new
    /\ (call.op = "insertColumn" /\ before.sheets[call.sheet].current_row >= 0) =>
          /\ result = Return(FALSE)
          /\ sheets[call.sheet].data = before.sheets[call.sheet].data

\* insertColumn has just failed on a sheet that was created new, had rows
\* saved, and has rows buffered again
C15_Witness ==
    /\ call.op = "insertColumn"
    /\ opened = <<>>
    /\ before.sheets[call.sheet].current_row >= 0
    /\ Len(before.sheets[call.sheet].data) >= 1
    /\ result = Return(FALSE)

\* sheet s was created new by addSheet and none of its rows has been written
NothingEmitted(shs, s) ==
    /\ s > Len(opened)
    /\ shs[s].current_row = -1

\* C16: a sheet created new by addSheet is new for as long as none of its rows
\* has been written, also after a save with an empty buffer, and insertColumn
\* on it succeeds.
C16_NewUntilRowsEmitted ==
    /\ \A s \in 1..Len(sheets) : NothingEmitted(sheets, s) => sheets[s].is_new
    /\ (call.op = "insertColumn" /\ NothingEmitted(before.sheets, call.sheet)) =>
          result = Return(TRUE)

\* C17: insertColumn, whether it succeeds or fails, leaves the workbook's
\* cells, the registry, and the cursor, the is_new flag and the title of the
\* sheet as they were; only the items of the buffered rows change.
C17_InsertColumnFrame ==
    call.op = "insertColumn" =>
        /\ grid = before.grid
        /\ Len(sheets) = Len(before.sheets)
        /\ \A s \in 1..Len(sheets) :
              /\ sheets[s].title = before.sheets[s].title
              /\ sheets[s].current_row = before.sheets[s].current_row
              /\ sheets[s].is_new = before.sheets[s].is_new
              /\ Len(sheets[s].data) = Len(before.sheets[s].data)
              /\ s # call.sheet => sheets[s] = before.sheets[s]

\* insertColumn has just succeeded and changed two buffered rows
C17_Witness ==
    /\ call.op = "insertColumn"
    /\ result = Return(TRUE)
    /\ Len(before.sheets[call.sheet].data) = 2
    /\ \A i \in 1..2 : sheets[call.sheet].data[i] # before.sheets[call.sheet].data[i]

\* C18: every addTitleRow, addRow and addEmptyRow moves the cursor of the
\* Spreadsheet on by exactly one, writes that row only and returns its index;
\* a new Spreadsheet starts before row 0, so that its first call returns 0
\* and each later call the result of the call before plus one.
C18_OneRowPerCall ==
    /\ (call.op = "Spreadsheet" /\ opened = <<>>) => spreadsheet.current_row = -1
    /\ RowAdded =>
          /\ spreadsheet.current_row = before.spreadsheet.current_row + 1
          /\ result = Return(before.spreadsheet.current_row + 1)
          /\ \A e \in Range(log) :
                e.ev = "write" => e.row = before.spreadsheet.current_row + 1

====
